---------------------------- MODULE Spec2Model ----------------------------
(***************************************************************************)
(* Model of src/packages.rs of virtualenv-rs: the wheel cache              *)
(* (download_wheel_cached), the directory replicator (copy_dir_all), the   *)
(* launcher template (unix_launcher_script) and the bootstrap installer    *)
(* (install_base_packages).                                                *)
(*                                                                         *)
(* Three specifications share the module:                                  *)
(*   SpecCache    interleaved download_wheel_cached calls                  *)
(*   SpecCopy     one copy_dir_all call over arbitrary small trees         *)
(*   SpecInstall  one install_base_packages call                           *)
(***************************************************************************)
EXTENDS Integers, Sequences, FiniteSets, TLC

(***************************************************************************)
(* Bounds                                                                  *)
(***************************************************************************)
\* number of download_wheel_cached calls that may be in flight or finished
NumCalls == 2
\* longest response body, in chunks handed over by one read of the response
MaxBody == 2

Calls == 1..NumCalls
Filenames == {"a.whl", "b.whl"}

(***************************************************************************)
(* Files.  A path holds either nothing or a regular file with its bytes.   *)
(***************************************************************************)
NoFile == [exists |-> FALSE, data |-> <<>>]
File(d) == [exists |-> TRUE, data |-> d]

\* packages.rs:12  cached_wheel.is_file()
\* faulty variant: the test never sees the cached file
IsFile_Never(f) == FALSE
IsFile(f) == f.exists

\* packages.rs:10-11  crate_cache_dir()?.join("wheels").join(filename); the
\* cache root is one fixed directory of the process
CachedWheel(filename) == <<"cache_root", "wheels", filename>>
NoPath == <<>>

\* chunk i of the response body served to call c: what one read of the
\* response yields.  The body of a transfer is what the reads yield up to end
\* of stream.
Chunk(c, i) == <<c, i>>
\* the first n chunks of the body served to call c
Body(c, n) == [i \in 1..n |-> Chunk(c, i)]

\* the `?` operator: continue at `next` on Ok, return the error otherwise
\* faulty variant: the error is ignored and the call goes on
Try_Ignore(ok, next) == next
Try(ok, next) == IF ok THEN next ELSE "err"

\* Drop of a NamedTempFile that was not persisted: the file is unlinked
\* faulty variant: the temp file is kept on disk
DropTempfile_Leak(t) == t
DropTempfile(t) == NoFile

\* packages.rs:29-30  NamedTempFile::persist: rename over the destination,
\* replacing whatever is there; osOk is whether the rename system call succeeds
\* faulty variant: persist_noclobber, which fails when the destination exists
Persist_NoClobber(existing, temp, osOk) ==
    IF osOk /\ ~existing.exists
    THEN [ok |-> TRUE, file |-> temp]
    ELSE [ok |-> FALSE, file |-> existing]
\* faulty variant: a persist that writes the destination even when it fails
Persist_CopyFallback(existing, temp, osOk) ==
    [ok |-> osOk, file |-> temp]
Persist(existing, temp, osOk) ==
    IF osOk
    THEN [ok |-> TRUE, file |-> temp]
    ELSE [ok |-> FALSE, file |-> existing]

(***************************************************************************)
(* Directory trees.  A tree maps each existing path (a sequence of names,  *)
(* relative to the tree's root) to a directory or to a regular file with   *)
(* its bytes.  The empty function is a root that does not exist.           *)
(***************************************************************************)
\* number of distinct file contents
NumBytes == 2

Dir == [kind |-> "dir", data |-> 0]
RegFile(b) == [kind |-> "file", data |-> b]
\* contents of a file that a failed fs::copy created or truncated
PartialData == 0
Root == <<>>
NoTree == <<>>

IsDir(t, p) == p \in DOMAIN t /\ t[p].kind = "dir"
Put(t, p, n) == [q \in DOMAIN t \cup {p} |-> IF q = p THEN n ELSE t[q]]
\* names of the entries of directory p
EntryNames(t, p) ==
    {q[Len(q)] : q \in {r \in DOMAIN t : Len(r) = Len(p) + 1 /\ SubSeq(r, 1, Len(p)) = p}}

\* packages.rs:108-109  fs::create_dir_all(&dst)?; fs::read_dir(src)?
\* fail: "mkdir" the directory cannot be created, "readdir" it is created
\* and the source cannot be listed, anything else no injected failure
EnterDir(d, s, rel, fail) ==
    LET made == IF IsDir(d, rel) THEN d ELSE Put(d, rel, Dir)
    IN  IF rel \in DOMAIN d /\ ~IsDir(d, rel)
        THEN [ok |-> FALSE, dst |-> d, todo |-> {}]
        ELSE IF ~IsDir(d, rel) /\ fail = "mkdir"
        THEN [ok |-> FALSE, dst |-> d, todo |-> {}]
        ELSE IF ~IsDir(s, rel) \/ fail = "readdir"
        THEN [ok |-> FALSE, dst |-> made, todo |-> {}]
        ELSE [ok |-> TRUE, dst |-> made, todo |-> EntryNames(s, rel)]

\* packages.rs:115  fs::copy(entry.path(), dst.join(entry.file_name()))?
\* fail: "open" the destination cannot be opened, "write" it was created or
\* truncated and the bytes did not all arrive
\* faulty variant: an existing destination is left as it is
FsCopy_KeepExisting(d, p, node, fail) ==
    IF p \in DOMAIN d THEN [ok |-> TRUE, dst |-> d]
    ELSE [ok |-> TRUE, dst |-> Put(d, p, node)]
FsCopy(d, p, node, fail) ==
    IF IsDir(d, p) \/ fail = "open"
    THEN [ok |-> FALSE, dst |-> d]
    ELSE IF fail = "write"
    THEN [ok |-> FALSE, dst |-> Put(d, p, RegFile(PartialData))]
    ELSE [ok |-> TRUE, dst |-> Put(d, p, node)]

VARIABLES
    calls,        \* per call: control state, locals and bookkeeping
    final,        \* filename -> file at cache_root/wheels/<filename>
    wheelsDir,    \* whether cache_root/wheels exists
    lastPersist   \* filename -> call whose rename ran last (0: none)

cacheVars == <<calls, final, wheelsDir, lastPersist>>

\* copy_dir_all
VARIABLES
    src,          \* the tree being copied from
    dst,          \* the tree being copied into (site_packages in the installer)
    dst0,         \* dst as it was when the copy started
    cpStack,      \* the active copy_dir_all frames, innermost last
    cpPc          \* idle, run, ok, err

copyVars == <<src, dst, dst0, cpStack, cpPc>>

\* install_base_packages
VARIABLES
    ipc,          \* idle, begin, copy, read, entries, ok, err
    pkg,          \* index into Packages of the package being installed
    dataDir,      \* package index -> its pre-unpacked wheel tree in the data dir
    table,        \* console_scripts of the package being installed: key -> value
    todo,         \* keys of table the loop has not reached yet
    bin,          \* command name -> file at bin_dir/<command name>
    bin0,         \* bin as it was when the installer started
    ierr,         \* the error the installer returned
    \* bookkeeping for the properties
    parsed,       \* package index -> the console_scripts it was parsed to
    launched,     \* launchers written: [pkg, key, script]
    started,      \* packages whose copy was begun
    copied,       \* packages whose copy returned Ok
    tried,        \* <<pkg, key>> of the entries the loop reached
    stepFailed    \* some step of the installer failed

installVars == <<ipc, pkg, dataDir, table, todo, bin, bin0, ierr,
                 parsed, launched, started, copied, tried, stepFailed>>

otherThanCache == <<copyVars, installVars>>
otherThanCopy == <<cacheVars, installVars>>
vars == <<cacheVars, copyVars, installVars>>

(***************************************************************************)
(* pc values of a call                                                     *)
(*   idle         not started                                              *)
(*   mkdir        miss observed, about to create_dir_all        (line 18)  *)
(*   mktemp       about to NamedTempFile::new_in                (line 19)  *)
(*   send         about to send_lazy                            (line 21)  *)
(*   read, flush  inside io::copy                               (line 22)  *)
(*   persist      about to persist                              (line 29)  *)
(*   ok           returned Ok(cached_wheel)                                *)
(*   err          returned Err, no temp file handle alive                  *)
(*   err_persist  returned Err wrapping the PersistError, which owns the   *)
(*                NamedTempFile until the caller drops the error           *)
(***************************************************************************)
Returned == {"ok", "err", "err_persist"}

IdleCall ==
    [pc |-> "idle", fname |-> "a.whl", tmp |-> NoFile, buf |-> <<>>, rx |-> 0,
     eof |-> FALSE, ret |-> NoPath,
     \* bookkeeping for the properties
     hit |-> FALSE, afterOk |-> FALSE, sent |-> FALSE, failed |-> FALSE,
     wrote |-> {}, replaced |-> FALSE]

IdleCopy ==
    /\ src = NoTree
    /\ dst = NoTree
    /\ dst0 = NoTree
    /\ cpStack = <<>>
    /\ cpPc = "idle"

IdleCache ==
    /\ calls = [c \in Calls |-> IdleCall]
    /\ final = [f \in Filenames |-> NoFile]
    /\ wheelsDir = FALSE
    /\ lastPersist = [f \in Filenames |-> 0]

\* command names that occur in the entry_points.txt files of the model
BinKeys == {"pip", "pip3", "wheel", "foo"}
NoLauncher == [exists |-> FALSE, script |-> <<>>, mode |-> 0]
NoValue == [some |-> FALSE, text |-> <<>>]
NoErr == [kind |-> "none", name |-> "", key |-> "", value |-> NoValue]
EmptyMap == [k \in {} |-> NoValue]

IdleInstall ==
    /\ ipc = "idle"
    /\ pkg = 1
    /\ dataDir = <<NoTree, NoTree, NoTree>>
    /\ table = EmptyMap
    /\ todo = {}
    /\ bin = [k \in BinKeys |-> NoLauncher]
    /\ bin0 = bin
    /\ ierr = NoErr
    /\ parsed = <<EmptyMap, EmptyMap, EmptyMap>>
    /\ launched = {}
    /\ started = {}
    /\ copied = {}
    /\ tried = {}
    /\ stepFailed = FALSE

InitCache ==
    /\ IdleCache
    /\ IdleCopy
    /\ IdleInstall

\* packages.rs:10-15  resolve the cache path and test it.  afterOk records
\* that an earlier call for the same filename had already returned Ok.
CheckCache(c, f) ==
    /\ calls[c].pc = "idle"
    /\ LET after == \E d \in Calls : calls[d].pc = "ok" /\ calls[d].fname = f
       IN  calls' = [calls EXCEPT ![c] =
             IF IsFile(final[f])
             THEN [@ EXCEPT !.pc = "ok", !.fname = f, !.hit = TRUE,
                            !.ret = CachedWheel(f), !.afterOk = after]
             ELSE [@ EXCEPT !.pc = "mkdir", !.fname = f, !.afterOk = after]]
    /\ UNCHANGED <<final, wheelsDir, lastPersist>>

\* packages.rs:18  fs::create_dir_all(&wheels_cache)?
CreateDirAll(c, ok) ==
    /\ calls[c].pc = "mkdir"
    /\ calls' = [calls EXCEPT ![c] =
          [@ EXCEPT !.pc = Try(ok, "mktemp"), !.failed = ~ok]]
    /\ wheelsDir' = (wheelsDir \/ ok)
    /\ UNCHANGED <<final, lastPersist>>

\* packages.rs:19  NamedTempFile::new_in(wheels_cache)?
NewTempfile(c, ok) ==
    /\ calls[c].pc = "mktemp"
    /\ ok => wheelsDir
    /\ calls' = [calls EXCEPT ![c] =
          IF ok
          THEN [@ EXCEPT !.pc = "send", !.tmp = File(<<>>),
                         !.wrote = @ \cup {"temp"}]
          ELSE [@ EXCEPT !.pc = "err", !.failed = TRUE]]
    /\ UNCHANGED <<final, wheelsDir, lastPersist>>

\* packages.rs:21  minreq::get(url).send_lazy()?
SendLazy(c, ok) ==
    /\ calls[c].pc = "send"
    /\ calls' = [calls EXCEPT ![c] =
          IF Try(ok, "read") = "err"
          THEN [@ EXCEPT !.pc = "err", !.sent = TRUE, !.failed = ~ok,
                         !.tmp = DropTempfile(@)]
          ELSE [@ EXCEPT !.pc = "read", !.sent = TRUE, !.failed = ~ok]]
    /\ UNCHANGED <<final, wheelsDir, lastPersist>>

\* packages.rs:22  io::copy: one read of the response into the empty
\* BufWriter buffer.  r is what the read returns.
CopyRead(c, r) ==
    /\ calls[c].pc = "read"
    /\ r \in {"data", "eof", "error"}
    /\ r = "data" => calls[c].rx < MaxBody
    /\ calls' = [calls EXCEPT ![c] =
          CASE r = "data" ->
                 [@ EXCEPT !.pc = "flush", !.rx = @ + 1,
                           !.buf = <<Chunk(c, calls[c].rx + 1)>>]
            [] r = "eof" ->
                 \* io::copy returns Ok with the buffer already flushed
                 [@ EXCEPT !.pc = "persist", !.eof = TRUE]
            [] OTHER ->
                 IF Try(FALSE, "read") = "err"
                 THEN [@ EXCEPT !.pc = "err", !.failed = TRUE,
                                !.tmp = DropTempfile(@)]
                 ELSE [@ EXCEPT !.pc = "persist", !.failed = TRUE]]
    /\ UNCHANGED <<final, wheelsDir, lastPersist>>

\* packages.rs:22-28  io::copy: the buffer is written to the temp file before
\* the next read; a write error is returned with context by `?`
CopyFlush(c, ok) ==
    /\ calls[c].pc = "flush"
    /\ calls' = [calls EXCEPT ![c] =
          IF ok
          THEN [@ EXCEPT !.pc = "read", !.buf = <<>>,
                         !.tmp = File(calls[c].tmp.data \o calls[c].buf)]
          ELSE IF Try(FALSE, "read") = "err"
          THEN [@ EXCEPT !.pc = "err", !.buf = <<>>, !.failed = TRUE,
                         !.tmp = DropTempfile(@)]
          ELSE [@ EXCEPT !.pc = "persist", !.buf = <<>>, !.failed = TRUE]]
    /\ UNCHANGED <<final, wheelsDir, lastPersist>>

\* packages.rs:29-32  tempfile.persist(&cached_wheel) ... ?; Ok(cached_wheel)
PersistTempfile(c, osOk) ==
    /\ calls[c].pc = "persist"
    /\ LET f == calls[c].fname
           res == Persist(final[f], calls[c].tmp, osOk)
       IN  /\ final' = [final EXCEPT ![f] = res.file]
           /\ lastPersist' = [lastPersist EXCEPT ![f] = IF osOk THEN c ELSE @]
           /\ calls' = [calls EXCEPT ![c] =
                 IF res.ok
                 THEN [@ EXCEPT !.pc = "ok", !.tmp = NoFile,
                                !.ret = CachedWheel(f),
                                !.wrote = @ \cup {"final"},
                                !.replaced = final[f].exists]
                 ELSE [@ EXCEPT !.pc = "err_persist", !.failed = TRUE]]
    /\ UNCHANGED wheelsDir

\* the caller discards the error returned by a failed persist; the
\* NamedTempFile inside the PersistError is dropped with it
DropError(c) ==
    /\ calls[c].pc = "err_persist"
    /\ calls' = [calls EXCEPT ![c] =
          [@ EXCEPT !.pc = "err", !.tmp = DropTempfile(@)]]
    /\ UNCHANGED <<final, wheelsDir, lastPersist>>

StepCheckCache == 
    /\ \E c \in Calls, f \in Filenames : CheckCache(c, f)
    /\ UNCHANGED otherThanCache
StepCreateDirAll == 
    /\ \E c \in Calls, ok \in BOOLEAN : CreateDirAll(c, ok)
    /\ UNCHANGED otherThanCache
StepNewTempfile == 
    /\ \E c \in Calls, ok \in BOOLEAN : NewTempfile(c, ok)
    /\ UNCHANGED otherThanCache
StepSendLazy == 
    /\ \E c \in Calls, ok \in BOOLEAN : SendLazy(c, ok)
    /\ UNCHANGED otherThanCache
StepCopyRead == 
    /\ \E c \in Calls, r \in {"data", "eof", "error"} : CopyRead(c, r)
    /\ UNCHANGED otherThanCache
StepCopyFlush == 
    /\ \E c \in Calls, ok \in BOOLEAN : CopyFlush(c, ok)
    /\ UNCHANGED otherThanCache
StepPersist == 
    /\ \E c \in Calls, ok \in BOOLEAN : PersistTempfile(c, ok)
    /\ UNCHANGED otherThanCache
StepDropError == 
    /\ \E c \in Calls : DropError(c)
    /\ UNCHANGED otherThanCache

NextCache ==
    \/ StepCheckCache
    \/ StepCreateDirAll
    \/ StepNewTempfile
    \/ StepSendLazy
    \/ StepCopyRead
    \/ StepCopyFlush
    \/ StepPersist
    \/ StepDropError

SpecCache == InitCache /\ [][NextCache]_vars

(***************************************************************************)
(* Properties of the wheel cache                                           *)
(***************************************************************************)

C3_CacheIdempotence ==
    \A c \in Calls :
        calls[c].afterOk =>
            /\ calls[c].pc = "ok"
            /\ calls[c].hit
            /\ ~calls[c].sent
            /\ calls[c].wrote = {}
            /\ ~calls[c].tmp.exists
            /\ \E d \in Calls \ {c} :
                  /\ calls[d].pc = "ok"
                  /\ calls[d].fname = calls[c].fname
                  /\ calls[d].ret = calls[c].ret
                  /\ calls[c].ret = CachedWheel(calls[c].fname)

\* the first call downloaded, the second one was served from the cache
C3_Witness ==
    \E c, d \in Calls :
        /\ c # d
        /\ calls[d].pc = "ok" /\ calls[d].sent /\ ~calls[d].hit
        /\ calls[c].afterOk /\ calls[c].pc = "ok"
        /\ calls[c].fname = calls[d].fname

\* C4: nothing excludes two calls that both saw a miss: each call that
\* returned Ok on the miss path made its own transfer and persisted, and the
\* final path holds the temp file of the call whose rename ran last, also
\* when a complete file was already there.
C4_LastPersistWins ==
    /\ \A f \in Filenames :
          lastPersist[f] # 0 =>
              final[f] = File(Body(lastPersist[f], calls[lastPersist[f]].rx))
    /\ \A c \in Calls :
          (calls[c].pc = "ok" /\ ~calls[c].hit) =>
              (calls[c].sent /\ "final" \in calls[c].wrote)

\* two calls for one filename both downloaded and persisted, and the second
\* rename replaced the first call's complete file by a different body
C4_Witness ==
    \E c, d \in Calls :
        /\ c # d
        /\ calls[c].fname = calls[d].fname
        /\ calls[c].pc = "ok" /\ ~calls[c].hit /\ calls[c].sent
        /\ calls[d].pc = "ok" /\ ~calls[d].hit /\ calls[d].sent
        /\ calls[d].replaced
        /\ lastPersist[calls[d].fname] = d
        /\ calls[c].rx >= 1
        /\ final[calls[d].fname].data # Body(c, calls[c].rx)

\* C10 as stated: once a call has returned, its temp file no longer exists
C10_NoTempAfterReturn ==
    \A c \in Calls :
        calls[c].pc \in Returned => ~calls[c].tmp.exists

\* C10, amended: after Ok and after every failure before persist the temp
\* file is gone at return; after a failed persist it exists exactly as long as
\* the caller keeps the returned error
C10_TempOwnedByPersistError ==
    \A c \in Calls :
        /\ calls[c].pc \in {"ok", "err"} => ~calls[c].tmp.exists
        /\ calls[c].pc = "err_persist" => calls[c].tmp.exists

\* a call that had created its temp file returned an error and the file is gone
C10_Witness ==
    \E c \in Calls :
        /\ calls[c].pc = "err"
        /\ "temp" \in calls[c].wrote
        /\ calls[c].rx >= 1
        /\ ~calls[c].tmp.exists


(***************************************************************************)
(* copy_dir_all                                                            *)
(***************************************************************************)
TopNames == {"a", "b"}
SubName == "c"
Bytes == 1..NumBytes
Kinds == {"none", "file", "dir"}

\* what a tree holds under one top-level name: nothing, a file, or a directory
\* that holds nothing, a file or an empty directory under SubName
TopShapes ==
    {sh \in [k : Kinds, b : 0..NumBytes, ck : Kinds, cb : 0..NumBytes] :
        /\ (sh.k = "file") = (sh.b # 0)
        /\ sh.k # "dir" => sh.ck = "none"
        /\ (sh.ck = "file") = (sh.cb # 0)}

MkTree(sh) ==
    LET tops == {n \in TopNames : sh[n].k # "none"}
        subs == {n \in TopNames : sh[n].ck # "none"}
        paths == {Root} \cup {<<n>> : n \in tops} \cup {<<n, SubName>> : n \in subs}
    IN  [p \in paths |->
            IF p = Root THEN Dir
            ELSE IF Len(p) = 1
            THEN (IF sh[p[1]].k = "dir" THEN Dir ELSE RegFile(sh[p[1]].b))
            ELSE (IF sh[p[1]].ck = "dir" THEN Dir ELSE RegFile(sh[p[1]].cb))]

Trees == {MkTree(sh) : sh \in [TopNames -> TopShapes]}
\* a path that is a regular file, not a directory
FileAtRoot == [p \in {Root} |-> RegFile(1)]

InitCopy ==
    /\ src \in Trees \cup {NoTree}
    /\ dst \in Trees \cup {NoTree, FileAtRoot}
    /\ dst0 = dst
    /\ cpStack = <<>>
    /\ cpPc = "idle"
    /\ IdleCache
    /\ IdleInstall

CopyFails == {"none", "entry", "mkdir", "readdir", "open", "write"}

\* packages.rs:107-109  the outermost copy_dir_all(s, dst) is entered
CopyStartOn(s, fail) ==
    /\ fail \in {"none", "mkdir", "readdir"}
    /\ LET r == EnterDir(dst, s, Root, fail)
       IN  /\ dst' = r.dst
           /\ cpPc' = IF r.ok THEN "run" ELSE "err"
           /\ cpStack' = IF r.ok THEN <<[rel |-> Root, todo |-> r.todo]>> ELSE <<>>
    /\ src' = s
    /\ dst0' = dst

CopyStart(fail) ==
    /\ cpPc = "idle"
    /\ CopyStartOn(src, fail)

\* packages.rs:109-117  one iteration of the loop of the innermost frame, on
\* the entry `name`; read_dir yields the entries in no particular order
CopyEntry(name, fail) ==
    /\ cpPc = "run"
    /\ cpStack # <<>>
    /\ LET top == cpStack[Len(cpStack)]
           child == top.rel \o <<name>>
           rest == [top EXCEPT !.todo = @ \ {name}]
           below == SubSeq(cpStack, 1, Len(cpStack) - 1)
       IN  /\ name \in top.todo
           /\ IF fail = "entry"
              THEN \* entry? or entry.file_type()? fails
                   /\ cpPc' = "err"
                   /\ UNCHANGED <<dst, cpStack>>
              ELSE IF src[child].kind = "dir"
              THEN LET r == EnterDir(dst, src, child, fail)
                   IN  /\ fail \in {"none", "mkdir", "readdir"}
                       /\ dst' = r.dst
                       /\ cpPc' = IF r.ok THEN "run" ELSE "err"
                       /\ cpStack' = IF r.ok
                                     THEN below \o <<rest, [rel |-> child, todo |-> r.todo]>>
                                     ELSE cpStack
              ELSE LET r == FsCopy(dst, child, src[child], fail)
                   IN  /\ fail \in {"none", "open", "write"}
                       /\ dst' = r.dst
                       /\ cpPc' = IF r.ok THEN "run" ELSE "err"
                       /\ cpStack' = IF r.ok THEN below \o <<rest>> ELSE cpStack
    /\ UNCHANGED <<src, dst0>>

\* packages.rs:117-118  the loop of the innermost frame is over: Ok(())
CopyReturn ==
    /\ cpPc = "run"
    /\ cpStack # <<>>
    /\ cpStack[Len(cpStack)].todo = {}
    /\ cpStack' = SubSeq(cpStack, 1, Len(cpStack) - 1)
    /\ cpPc' = IF Len(cpStack) = 1 THEN "ok" ELSE "run"
    /\ UNCHANGED <<src, dst, dst0>>

\* the entries the innermost frame has not processed yet
TopTodo == IF cpStack = <<>> THEN {} ELSE cpStack[Len(cpStack)].todo

StepCopyStart ==
    /\ \E fail \in CopyFails : CopyStart(fail)
    /\ UNCHANGED otherThanCopy
StepCopyEntry ==
    /\ \E name \in TopTodo, fail \in CopyFails : CopyEntry(name, fail)
    /\ UNCHANGED otherThanCopy
StepCopyReturn ==
    /\ CopyReturn
    /\ UNCHANGED otherThanCopy

NextCopy ==
    \/ StepCopyStart
    \/ StepCopyEntry
    \/ StepCopyReturn

SpecCopy == InitCopy /\ [][NextCopy]_vars

\* C9 as stated: after a successful copy dst has the same set of relative
\* paths as src and the same bytes at each path
C9_DstIdenticalToSrc ==
    cpPc = "ok" => dst = src

\* C9, amended: after a successful copy every path of src is in dst with the
\* same kind and bytes, every path that dst had and src has not is kept as it
\* was, and dst holds nothing else; dst equals src when dst was absent or an
\* empty directory.
C9_DstContainsSrc ==
    cpPc = "ok" =>
        /\ \A p \in DOMAIN src : p \in DOMAIN dst /\ dst[p] = src[p]
        /\ \A p \in DOMAIN dst0 \ DOMAIN src : p \in DOMAIN dst /\ dst[p] = dst0[p]
        /\ DOMAIN dst = DOMAIN src \cup DOMAIN dst0
        /\ (DOMAIN dst0 \subseteq {Root} => dst = src)

\* a copy of a tree with a nested file succeeded into a populated dst: a file
\* with other bytes was overwritten, and an entry src does not have was kept
C9_Witness ==
    /\ cpPc = "ok"
    /\ \E p \in DOMAIN src : Len(p) = 2 /\ src[p].kind = "file"
    /\ \E p \in DOMAIN src : p \in DOMAIN dst0 /\ src[p].kind = "file" /\ dst0[p] # src[p]
    /\ \E p \in DOMAIN dst0 : p \notin DOMAIN src

(***************************************************************************)
(* install_base_packages                                                   *)
(***************************************************************************)
\* packages.rs:51-55
Packages ==
    << [name |-> "pip", version |-> "23.2.1"],
       [name |-> "setuptools", version |-> "68.2.2"],
       [name |-> "wheel", version |-> "0.41.2"] >>
NumPkgs == Len(Packages)
Pkgs == 1..NumPkgs

\* packages.rs:73-74  format!("{name}-{version}.dist-info"), "entry_points.txt"
DistInfoName(p) == <<p.name, "-", p.version, ".dist-info">>
EntryPointsTxt == <<"entry_points.txt">>
EntryPointsPath(p) == <<DistInfoName(p), EntryPointsTxt>>
\* the importable part of the package
LibName(p) == <<p.name>>

\* the interpreter of the venv
VenvPython == "/venv/bin/python"

\* packages.rs:98  Permissions::from_mode(0o755)
Mode755 == 493
\* mode of a file that fs::write creates (0o644)
DefaultMode == 420

Some(text) == [some |-> TRUE, text |-> text]

(***************************************************************************)
(* entry_points.txt texts, by the number stored as the file's bytes, and   *)
(* what Ini::new_cs().read makes of each.  A value is a sequence of pieces *)
(* of text, ":" being a piece of its own.                                  *)
(***************************************************************************)
IniCatalogue ==
    << \* 1: not well-formed
       [ok |-> FALSE, ini |-> <<>>],
       \* 2: [distutils.commands] only
       [ok |-> TRUE,
        ini |-> ("distutils.commands" :> ("alias" :> Some(<<"setuptools", ":", "alias">>)))],
       \* 3: [console_scripts] pip = pip.main:main / pip3 = pip.main:main
       [ok |-> TRUE,
        ini |-> ("console_scripts" :>
                   (("pip" :> Some(<<"pip.main", ":", "main">>))
                    @@ ("pip3" :> Some(<<"pip.main", ":", "main">>))))],
       \* 4: [console_scripts] wheel = wheel.cli:main
       [ok |-> TRUE,
        ini |-> ("console_scripts" :> ("wheel" :> Some(<<"wheel.cli", ":", "main">>)))],
       \* 5: [console_scripts] pip = other:run
       [ok |-> TRUE,
        ini |-> ("console_scripts" :> ("pip" :> Some(<<"other", ":", "run">>)))],
       \* 6: [console_scripts] foo = pkgmod / pip3 = pip.main:main
       [ok |-> TRUE,
        ini |-> ("console_scripts" :>
                   (("foo" :> Some(<<"pkgmod">>))
                    @@ ("pip3" :> Some(<<"pip.main", ":", "main">>))))],
       \* 7: [console_scripts] foo
       [ok |-> TRUE,
        ini |-> ("console_scripts" :> ("foo" :> NoValue))],
       \* 8: [console_scripts] foo = a:b:c
       [ok |-> TRUE,
        ini |-> ("console_scripts" :> ("foo" :> Some(<<"a", ":", "b", ":", "c">>)))] >>

\* packages.rs:77-79  Ini::new_cs().read(ini_text)
IniRead(t) ==
    IF t \in 1..Len(IniCatalogue) THEN IniCatalogue[t] ELSE [ok |-> FALSE, ini |-> <<>>]

\* packages.rs:81-83  .get("console_scripts").cloned().unwrap_or_default()
ConsoleScripts(ini) ==
    IF "console_scripts" \in DOMAIN ini THEN ini["console_scripts"] ELSE EmptyMap

Colons(text) == {i \in 1..Len(text) : text[i] = ":"}
Min(S) == CHOOSE i \in S : \A j \in S : i <= j
Max(S) == CHOOSE i \in S : \A j \in S : j <= i

\* packages.rs:87  str::split_once(':')
\* faulty variant: rsplit_once, which splits at the last ':'
SplitOnce_Last(text) ==
    IF Colons(text) = {}
    THEN [some |-> FALSE, left |-> <<>>, right |-> <<>>]
    ELSE [some |-> TRUE,
          left |-> SubSeq(text, 1, Max(Colons(text)) - 1),
          right |-> SubSeq(text, Max(Colons(text)) + 1, Len(text))]
\* faulty variant: a value without ':' is taken as a module with no function
SplitOnce_Lenient(text) ==
    IF Colons(text) = {}
    THEN [some |-> TRUE, left |-> text, right |-> <<>>]
    ELSE [some |-> TRUE,
          left |-> SubSeq(text, 1, Min(Colons(text)) - 1),
          right |-> SubSeq(text, Min(Colons(text)) + 1, Len(text))]
SplitOnce(text) ==
    IF Colons(text) = {}
    THEN [some |-> FALSE, left |-> <<>>, right |-> <<>>]
    ELSE [some |-> TRUE,
          left |-> SubSeq(text, 1, Min(Colons(text)) - 1),
          right |-> SubSeq(text, Min(Colons(text)) + 1, Len(text))]

\* packages.rs:85-87  value.as_ref().and_then(|value| value.split_once(':'))
ParseEntry(value) ==
    IF value.some THEN SplitOnce(value.text)
    ELSE [some |-> FALSE, left |-> <<>>, right |-> <<>>]

\* packages.rs:123-138  the launcher, line by line
UnixLauncherScript(python, import_from, function) ==
    << <<"#!", python>>,
       <<"    # -*- coding: utf-8 -*-">>,
       <<"import re">>,
       <<"import sys">>,
       <<"from ", import_from, " import ", function>>,
       <<"if __name__ == '__main__':">>,
       <<"    sys.argv[0] = re.sub(r'(-script\\.pyw|\\.exe)?$', '', sys.argv[0])">>,
       <<"    sys.exit(", function, "())">> >>

\* packages.rs:93  fs::write(&launcher, launcher_script)
\* fail: "open" the file cannot be opened, "write" it was created or truncated
\* and the text did not all arrive
FsWrite(old, script, fail) ==
    LET mode == IF old.exists THEN old.mode ELSE DefaultMode
    IN  IF fail = "open" THEN [ok |-> FALSE, file |-> old]
        ELSE IF fail = "write"
        THEN [ok |-> FALSE, file |-> [exists |-> TRUE, script |-> <<>>, mode |-> mode]]
        ELSE [ok |-> TRUE, file |-> [exists |-> TRUE, script |-> script, mode |-> mode]]

\* packages.rs:95-99  fs::set_permissions(launcher, from_mode(0o755))
\* faulty variant: the mode is left as it is
SetPermissions_Noop(file, mode) == file
SetPermissions(file, mode) == [file EXCEPT !.mode = mode]

\* the `?` of the installer: the call returns the error while on package k
\* faulty variant: the failed package is skipped and the loop goes on
Abort_SkipPackage(k) == [ipc |-> "begin", pkg |-> k + 1]
Abort(k) == [ipc |-> "err", pkg |-> k]

Err(kind, k, key, value) ==
    [kind |-> kind, name |-> Packages[k].name, key |-> key, value |-> value]

\* the pre-unpacked trees the data dir may hold for package k: none, one
\* without entry_points.txt, or one with any text of the catalogue
PkgTrees(k) ==
    LET p == Packages[k]
        bare == [q \in {Root, <<LibName(p)>>} |->
                    IF q = Root THEN Dir ELSE RegFile(1)]
        withEp(t) == [q \in {Root, <<LibName(p)>>, <<DistInfoName(p)>>, EntryPointsPath(p)} |->
                        IF q = Root \/ q = <<DistInfoName(p)>> THEN Dir
                        ELSE IF q = EntryPointsPath(p) THEN RegFile(t)
                        ELSE RegFile(1)]
    IN  {NoTree, bare} \cup {withEp(t) : t \in 1..Len(IniCatalogue)}

StaleLauncher == [exists |-> TRUE, script |-> << <<"stale">> >>, mode |-> DefaultMode]

InitInstall ==
    /\ IdleCache
    /\ IdleCopy
    /\ ipc = "idle"
    /\ pkg = 1
    /\ dataDir \in {d \in [Pkgs -> UNION {PkgTrees(k) : k \in Pkgs}] :
                       \A k \in Pkgs : d[k] \in PkgTrees(k)}
    /\ table = EmptyMap
    /\ todo = {}
    /\ bin \in {[k \in BinKeys |-> NoLauncher],
               [k \in BinKeys |-> IF k = "pip" THEN StaleLauncher ELSE NoLauncher]}
    /\ bin0 = bin
    /\ ierr = NoErr
    /\ parsed = [k \in Pkgs |-> EmptyMap]
    /\ launched = {}
    /\ started = {}
    /\ copied = {}
    /\ tried = {}
    /\ stepFailed = FALSE

\* packages.rs:49-58  the data dir is resolved, or "Couldn't get data dir"
InstallStart(ok) ==
    /\ ipc = "idle"
    /\ ipc' = IF ok THEN "begin" ELSE Abort(pkg).ipc
    /\ pkg' = IF ok THEN pkg ELSE Abort(pkg).pkg
    /\ ierr' = IF ok THEN ierr ELSE Err("data_dir", pkg, "", NoValue)
    /\ stepFailed' = (stepFailed \/ ~ok)
    /\ UNCHANGED <<dataDir, table, todo, bin, bin0, parsed, launched, started,
                   copied, tried>>
    /\ UNCHANGED copyVars

\* what a step of the copy means to the installer (packages.rs:65-66)
AfterCopyStep ==
    /\ ipc' = IF cpPc' = "err" THEN Abort(pkg).ipc
              ELSE IF cpPc' = "ok" THEN "read" ELSE "copy"
    /\ pkg' = IF cpPc' = "err" THEN Abort(pkg).pkg ELSE pkg
    /\ ierr' = IF cpPc' = "err" THEN Err("copy", pkg, "", NoValue) ELSE ierr
    /\ copied' = IF cpPc' = "ok" THEN copied \cup {pkg} ELSE copied
    /\ stepFailed' = (stepFailed \/ cpPc' = "err")
    /\ UNCHANGED <<dataDir, table, todo, bin, bin0, parsed, launched, tried>>

\* packages.rs:59-66  top of the loop: copy_dir_all(&unpacked_wheel,
\* site_packages) is entered for the next package
BeginPackage(fail) ==
    /\ ipc = "begin"
    /\ pkg \in Pkgs
    /\ CopyStartOn(dataDir[pkg], fail)
    /\ started' = started \cup {pkg}
    /\ AfterCopyStep

InstallCopyEntry(name, fail) ==
    /\ ipc = "copy"
    /\ CopyEntry(name, fail)
    /\ UNCHANGED started
    /\ AfterCopyStep

InstallCopyReturn ==
    /\ ipc = "copy"
    /\ CopyReturn
    /\ UNCHANGED started
    /\ AfterCopyStep

\* packages.rs:71-83  entry_points.txt is read from site_packages and parsed
ReadEntryPoints(osOk) ==
    /\ ipc = "read"
    /\ LET path == EntryPointsPath(Packages[pkg])
           isFile == path \in DOMAIN dst /\ dst[path].kind = "file"
           ini == IF isFile THEN IniRead(dst[path].data) ELSE IniRead(0)
           good == isFile /\ osOk /\ ini.ok
       IN  /\ ipc' = IF good THEN "entries" ELSE Abort(pkg).ipc
           /\ pkg' = IF good THEN pkg ELSE Abort(pkg).pkg
           /\ ierr' = IF good THEN ierr
                      ELSE IF isFile /\ osOk
                      THEN Err("entry_points.txt is invalid", pkg, "", NoValue)
                      ELSE Err("should have an entry_points.txt", pkg, "", NoValue)
           /\ table' = IF good THEN ConsoleScripts(ini.ini) ELSE table
           /\ todo' = IF good THEN DOMAIN ConsoleScripts(ini.ini) ELSE todo
           /\ parsed' = IF good
                        THEN [parsed EXCEPT ![pkg] = ConsoleScripts(ini.ini)]
                        ELSE parsed
           /\ stepFailed' = (stepFailed \/ ~good)
    /\ UNCHANGED <<dataDir, bin, bin0, launched, started, copied, tried>>
    /\ UNCHANGED copyVars

\* packages.rs:80-100  one iteration of the loop over console_scripts, on the
\* entry `key`; the map yields its entries in no particular order
InstallEntry(key, fail) ==
    /\ ipc = "entries"
    /\ key \in todo
    /\ fail \in {"none", "open", "write", "chmod"}
    /\ LET e == ParseEntry(table[key])
           script == UnixLauncherScript(VenvPython, e.left, e.right)
           w == FsWrite(bin[key], script, fail)
           good == e.some /\ w.ok /\ fail # "chmod"
       IN  /\ e.some \/ fail = "none"
           /\ tried' = tried \cup {<<pkg, key>>}
           /\ bin' = IF ~e.some THEN bin
                     ELSE IF good
                     THEN [bin EXCEPT ![key] = SetPermissions(w.file, Mode755)]
                     ELSE [bin EXCEPT ![key] = w.file]
           /\ launched' = IF e.some /\ w.ok
                          THEN launched \cup {[pkg |-> pkg, key |-> key, script |-> script]}
                          ELSE launched
           /\ todo' = IF good THEN todo \ {key} ELSE todo
           /\ ipc' = IF good THEN "entries" ELSE Abort(pkg).ipc
           /\ pkg' = IF good THEN pkg ELSE Abort(pkg).pkg
           /\ ierr' = IF good THEN ierr
                      ELSE IF ~e.some
                      THEN Err("has an invalid value", pkg, key, table[key])
                      ELSE Err("io", pkg, key, NoValue)
           /\ stepFailed' = (stepFailed \/ ~good)
    /\ UNCHANGED <<dataDir, table, bin0, parsed, started, copied>>
    /\ UNCHANGED copyVars

\* packages.rs:100-101  the entries are done: on to the next package
EndPackage ==
    /\ ipc = "entries"
    /\ todo = {}
    /\ ipc' = "begin"
    /\ pkg' = pkg + 1
    /\ UNCHANGED <<dataDir, table, todo, bin, bin0, ierr, parsed, launched,
                   started, copied, tried, stepFailed>>
    /\ UNCHANGED copyVars

\* packages.rs:102  Ok(())
InstallReturn ==
    /\ ipc = "begin"
    /\ pkg \notin Pkgs
    /\ ipc' = "ok"
    /\ UNCHANGED <<pkg, dataDir, table, todo, bin, bin0, ierr, parsed, launched,
                   started, copied, tried, stepFailed>>
    /\ UNCHANGED copyVars

StepInstallStart ==
    /\ \E ok \in BOOLEAN : InstallStart(ok)
    /\ UNCHANGED cacheVars
StepBeginPackage ==
    /\ \E fail \in CopyFails : BeginPackage(fail)
    /\ UNCHANGED cacheVars
StepInstallCopyEntry ==
    /\ \E name \in TopTodo, fail \in CopyFails : InstallCopyEntry(name, fail)
    /\ UNCHANGED cacheVars
StepInstallCopyReturn ==
    /\ InstallCopyReturn
    /\ UNCHANGED cacheVars
StepReadEntryPoints ==
    /\ \E ok \in BOOLEAN : ReadEntryPoints(ok)
    /\ UNCHANGED cacheVars
StepInstallEntry ==
    /\ \E key \in todo, fail \in {"none", "open", "write", "chmod"} : InstallEntry(key, fail)
    /\ UNCHANGED cacheVars
StepEndPackage ==
    /\ EndPackage
    /\ UNCHANGED cacheVars
StepInstallReturn ==
    /\ InstallReturn
    /\ UNCHANGED cacheVars

NextInstall ==
    \/ StepInstallStart
    \/ StepBeginPackage
    \/ StepInstallCopyEntry
    \/ StepInstallCopyReturn
    \/ StepReadEntryPoints
    \/ StepInstallEntry
    \/ StepEndPackage
    \/ StepInstallReturn

SpecInstall == InitInstall /\ [][NextInstall]_vars

(***************************************************************************)
(* Properties of the installer                                             *)
(***************************************************************************)
\* the value has no ':' or is absent
Malformed(v) == ~v.some \/ Colons(v.text) = {}
\* the parts of a value before and after its first ':'
ModulePath(v) == SubSeq(v.text, 1, Min(Colons(v.text)) - 1)
FunctionName(v) == SubSeq(v.text, Min(Colons(v.text)) + 1, Len(v.text))

\* script starts the venv interpreter, imports the entry's function from the
\* entry's module and exits with that function's result
IsLauncherFor(script, v) ==
    /\ Len(script) >= 1
    /\ script[1] = <<"#!", VenvPython>>
    /\ \E i \in 1..Len(script) :
          script[i] = <<"from ", ModulePath(v), " import ", FunctionName(v)>>
    /\ \E i \in 1..Len(script) :
          script[i] = <<"    sys.exit(", FunctionName(v), "())">>

\* the console_scripts that package k declares in the data dir
Declared(k) ==
    LET path == EntryPointsPath(Packages[k])
    IN  IF path \in DOMAIN dataDir[k]
        THEN ConsoleScripts(IniRead(dataDir[k][path].data).ini)
        ELSE EmptyMap
\* the packages whose console_scripts declare command name key
Declaring(key) == {k \in Pkgs : key \in DOMAIN Declared(k)}

\* the copy of package k returned Ok and its tree is in site_packages
TreeCopied(k) ==
    /\ k \in copied
    /\ \A p \in DOMAIN dataDir[k] : p \in DOMAIN dst /\ dst[p] = dataDir[k][p]

\* tree copied and every launcher written and executable
FullyInstalled(k) ==
    /\ TreeCopied(k)
    /\ parsed[k] = Declared(k)
    /\ \A key \in DOMAIN Declared(k) :
          bin[key].exists /\ bin[key].mode = Mode755

WasLaunched(k, key) == \E r \in launched : r.pkg = k /\ r.key = key

\* C5: the installer is fail-fast without rollback: a failed step makes the
\* call return the error at once; the packages are taken in list order, each
\* begun only when all before it are fully installed; at the error nothing
\* was copied or launched for a later package; no step removes a path from
\* site_packages or a launcher from bin_dir, and nothing changes after the
\* error.
C5_FailFastNoRollback ==
    /\ [](/\ stepFailed => ipc = "err"
          /\ \A j \in started : \A i \in 1..(j - 1) : FullyInstalled(i)
          /\ ipc = "err" =>
                /\ \A i \in 1..(pkg - 1) : FullyInstalled(i)
                /\ \A j \in Pkgs : j > pkg =>
                      /\ j \notin started
                      /\ \A key \in BinKeys : ~WasLaunched(j, key)
                      /\ \A key \in BinKeys : <<j, key>> \notin tried)
    /\ [][/\ \A p \in DOMAIN dst : p \in DOMAIN dst'
          /\ \A key \in BinKeys : bin[key].exists => bin'[key].exists
          /\ ipc = "err" => (dst' = dst /\ bin' = bin)]_vars

\* the second package failed after part of its tree was copied, the first
\* one having launchers
C5_Witness ==
    /\ ipc = "err"
    /\ pkg = 2
    /\ Declared(1) # EmptyMap
    /\ 2 \in started
    /\ 2 \notin copied
    /\ <<LibName(Packages[2])>> \in DOMAIN dst

\* C6 as stated: after Ok every package's tree is copied and every declared
\* entry has at bin_dir/<key> an executable launcher rendered with that
\* entry's module and function
C6_EveryEntryHasItsLauncher ==
    ipc = "ok" =>
        \A k \in Pkgs :
            /\ TreeCopied(k)
            /\ parsed[k] = Declared(k)
            /\ \A key \in DOMAIN Declared(k) :
                  /\ bin[key].exists
                  /\ bin[key].mode = Mode755
                  /\ IsLauncherFor(bin[key].script, Declared(k)[key])

\* C6, amended: after Ok every package's tree is copied and every declared
\* entry has at bin_dir/<key> an executable launcher, rendered with the module
\* and function of the entry of the last package in list order that declares
\* that command name
C6_LastDeclarationLaunched ==
    ipc = "ok" =>
        \A k \in Pkgs :
            /\ TreeCopied(k)
            /\ parsed[k] = Declared(k)
            /\ \A key \in DOMAIN Declared(k) :
                  /\ bin[key].exists
                  /\ bin[key].mode = Mode755
                  /\ IsLauncherFor(bin[key].script,
                                   Declared(Max(Declaring(key)))[key])

\* the installer returned Ok where two packages declare one command name
\* and a package declares two
C6_Witness ==
    /\ ipc = "ok"
    /\ \E key \in BinKeys : Cardinality(Declaring(key)) >= 2
    /\ \E k \in Pkgs : Cardinality(DOMAIN Declared(k)) = 2

\* C7: when the loop reaches an entry whose value is absent or has no ':',
\* the installer returns an error that names the package and the key, has
\* written no launcher for it, and does nothing after it: the key is still
\* to do, no later package was begun, and no step changes anything.
C7_MalformedEntryRejected ==
    /\ [](\A t \in tried :
            Malformed(parsed[t[1]][t[2]]) =>
                /\ ipc = "err"
                /\ pkg = t[1]
                /\ ierr.kind = "has an invalid value"
                /\ ierr.name = Packages[t[1]].name
                /\ ierr.key = t[2]
                /\ ~WasLaunched(t[1], t[2])
                /\ (\A r \in launched : r.key # t[2]) => bin[t[2]] = bin0[t[2]]
                /\ t[2] \in todo
                /\ \A j \in Pkgs : j > t[1] => j \notin started)
    /\ [][(\E t \in tried : Malformed(parsed[t[1]][t[2]])) =>
            (tried' = tried /\ bin' = bin /\ dst' = dst /\ launched' = launched)]_vars

\* the second package declares foo = pkgmod and the loop reached it after
\* the first package got its launchers
C7_Witness ==
    /\ <<2, "foo">> \in tried
    /\ parsed[2]["foo"] = Some(<<"pkgmod">>)
    /\ \E r \in launched : r.pkg = 1

\* C8 as stated: an entry gets a launcher only when its value has exactly one
\* ':'; with none or with two or more the installer fails and renders nothing
C8_ExactlyOneSeparator ==
    \A t \in tried :
        LET v == parsed[t[1]][t[2]]
        IN  (~v.some \/ Cardinality(Colons(v.text)) # 1) =>
                (ipc = "err" /\ ~WasLaunched(t[1], t[2]))

\* C8, amended: an entry gets a launcher exactly when its value has at least
\* one ':'; the value is split at the first ':', the module being what is
\* before it and the function all that is after it, further ':' included;
\* with no ':' the installer fails and renders nothing.
C8_SplitOnFirstSeparator ==
    /\ \A t \in tried :
          Malformed(parsed[t[1]][t[2]]) =>
              (ipc = "err" /\ ~WasLaunched(t[1], t[2]))
    /\ \A r \in launched :
          LET v == parsed[r.pkg][r.key]
          IN  /\ ~Malformed(v)
              /\ ":" \notin {ModulePath(v)[i] : i \in 1..Len(ModulePath(v))}
              /\ ModulePath(v) \o <<":">> \o FunctionName(v) = v.text
              /\ IsLauncherFor(r.script, v)

\* a launcher was written for foo = a:b:c
C8_Witness ==
    \E r \in launched :
        /\ Cardinality(Colons(parsed[r.pkg][r.key].text)) = 2
        /\ bin[r.key].exists
        /\ bin[r.key].script = r.script

=============================================================================
